---- MODULE Spec2Model ----
(***************************************************************************)
(* Model of the completion orchestration of lecture-notes-sdk:             *)
(*   - withRetry (utils/retry.utils, kept in validation.utils.ts),         *)
(*   - the continuation loops OpenAIService.generateWithCompletion,        *)
(*     GeminiOpenAIService.generateWithModel, GeminiService.               *)
(*     generateWithModel, with their isResponseComplete validators,        *)
(*   - handleError (utils/error.utils.ts).                                 *)
(*   - RequestThrottler (same file as withRetry), on its own under         *)
(*     SpecThrottle, with a clock in milliseconds,                         *)
(*   - isResponseComplete of the services on its own under SpecValidator,  *)
(*   - handleError on its own under SpecHandler.                           *)
(* Texts are sequences of tokens; each token stands for a literal piece of *)
(* text, and the validators count the markers a token contains.            *)
(***************************************************************************)
EXTENDS Integers, Sequences, FiniteSets, TLC

----------------------------------------------------------------------------
(* Bounds of the model *)

\* largest config.maxAttempts explored
MaxAttemptsBound == 3

\* largest number of provider failures injected into one loop execution
MaxFailures == 3

\* largest opts.maxRetries explored when withRetry is called directly
MaxRetriesBound == 3

\* largest number of add() calls made on the throttler
MaxOps == 3

\* largest number of clock steps explored
MaxTicks == 5

\* longest text, in tokens, given to isResponseComplete directly
MaxTextLen == 3
MaxExtraCalls == 2
NumLoops == 2

----------------------------------------------------------------------------
(* Texts *)

\* whitespace tokens, removed by String.prototype.trim at both ends
Whitespace == {" ", "\n"}

\* the separator the loops put between two segments
Separator == <<"\n">>

\* defaultConfig.responseValidation.customIndicators (two of the five)
customIndicators == {"...", "[continued]"}

\* number of matches of /[\[{]/g inside one token
OpenCount(tok) ==
    IF tok \in {"\\begin{", "\\end{", "{", "[", "[continued]"} THEN 1 ELSE 0

\* number of matches of /[\]}]/g inside one token
CloseCount(tok) ==
    IF tok \in {"}", "]", "[continued]"} THEN 1 ELSE 0

\* the token of a code fence marker (three backticks)
Fence == "<fence>"

\* (content.match(/tok/g) || []).length
MatchCount(s, tok) == Cardinality({i \in 1..Len(s) : s[i] = tok})

\* (content.match(/[\[{]/g) || []).length
openBraces(s) == Cardinality({i \in 1..Len(s) : OpenCount(s[i]) = 1})

\* (content.match(/[\]}]/g) || []).length
closeBraces(s) == Cardinality({i \in 1..Len(s) : CloseCount(s[i]) = 1})

RECURSIVE TrimEnd(_)
TrimEnd(s) ==
    IF s # <<>> /\ s[Len(s)] \in Whitespace
    THEN TrimEnd(SubSeq(s, 1, Len(s) - 1))
    ELSE s

RECURSIVE TrimStart(_)
TrimStart(s) ==
    IF s # <<>> /\ s[1] \in Whitespace THEN TrimStart(Tail(s)) ELSE s

\* content.trim()
Trim(s) == TrimStart(TrimEnd(s))

\* content.trim().endsWith(indicator), the indicator being one token
EndsWithIndicator(s, indicator) ==
    LET t == Trim(s) IN t # <<>> /\ t[Len(t)] = indicator

IsPrefix(s, t) == Len(s) <= Len(t) /\ SubSeq(t, 1, Len(s)) = s

----------------------------------------------------------------------------
(* Completeness validators *)

\* AIService constructor: defaultConfig.responseValidation
defaultValidation ==
    [checkLaTeXBalance |-> TRUE, checkCodeBlocks |-> TRUE,
     checkJsonBalance |-> TRUE, customIndicators |-> customIndicators]

\* mutant of isResponseCompleteOpenAI: the JSON rule is missing
isResponseCompleteOpenAI_NoJsonRule(text, validation) ==
    IF \E indicator \in validation.customIndicators :
           EndsWithIndicator(text, indicator)
    THEN FALSE
    ELSE IF validation.checkLaTeXBalance
            /\ MatchCount(text, "\\begin{") # MatchCount(text, "\\end{")
    THEN FALSE
    ELSE IF validation.checkCodeBlocks /\ MatchCount(text, Fence) % 2 # 0
    THEN FALSE
    ELSE TRUE

\* OpenAIService.isResponseComplete
isResponseCompleteOpenAI(text, validation) ==
    IF \E indicator \in validation.customIndicators :
           EndsWithIndicator(text, indicator)
    THEN FALSE
    ELSE IF validation.checkLaTeXBalance
            /\ MatchCount(text, "\\begin{") # MatchCount(text, "\\end{")
    THEN FALSE
    ELSE IF validation.checkCodeBlocks /\ MatchCount(text, Fence) % 2 # 0
    THEN FALSE
    ELSE IF validation.checkJsonBalance /\ openBraces(text) # closeBraces(text)
    THEN FALSE
    ELSE TRUE

\* GeminiService.isResponseComplete and GeminiOpenAIService.isResponseComplete
isResponseCompleteGemini(text, validation) ==
    IF \E indicator \in validation.customIndicators :
           EndsWithIndicator(text, indicator)
    THEN FALSE
    ELSE IF validation.checkLaTeXBalance
            /\ MatchCount(text, "\\begin{") # MatchCount(text, "\\end{")
    THEN FALSE
    ELSE IF validation.checkCodeBlocks /\ MatchCount(text, Fence) % 2 # 0
    THEN FALSE
    ELSE TRUE

Services == {"OpenAIService", "GeminiOpenAIService", "GeminiService"}

\* this.isResponseComplete(content), dispatched on the service class
isResponseComplete(svc, text, validation) ==
    IF svc = "OpenAIService"
    THEN isResponseCompleteOpenAI(text, validation)
    ELSE isResponseCompleteGemini(text, validation)

----------------------------------------------------------------------------
(* Errors *)

\* messages of the errors of the model
IncompleteMessage == "Failed to generate complete response after maximum attempts"
errorMessage == "Failed to generate lecture notes"

\* error.message.includes('rate limit')
IncludesRateLimit(m) ==
    m \in {"rate limit exceeded", "rate limit on network"}

\* error.message.includes('network') || error.message.includes('ECONNREFUSED')
IncludesNetwork(m) ==
    m \in {"network error", "connect ECONNREFUSED", "rate limit on network"}

\* an error object: its class, its message and its identity (0: not thrown
\* by an invocation of the operation)
MkError(cls, message, id) == [cls |-> cls, message |-> message, id |-> id]

NoError == MkError("none", "", 0)

\* mutant of handleError: the network test is made before the rate-limit
\* test
handleError_NetworkFirst(error) ==
    IF error.cls = "OpenAIError" THEN error
    ELSE IF error.cls # "NonError"
    THEN IF IncludesNetwork(error.message)
         THEN MkError("NetworkError", "Network error occurred", 0)
         ELSE IF IncludesRateLimit(error.message)
         THEN MkError("RateLimitError", "Rate limit exceeded. Please try again later.", 0)
         ELSE MkError("SDKError", error.message, 0)
    ELSE MkError("SDKError", "An unknown error occurred", 0)

\* handleError: the error it throws
handleError(error) ==
    IF error.cls = "OpenAIError" THEN error
    ELSE IF error.cls # "NonError"
    THEN IF IncludesRateLimit(error.message)
         THEN MkError("RateLimitError", "Rate limit exceeded. Please try again later.", 0)
         ELSE IF IncludesNetwork(error.message)
         THEN MkError("NetworkError", "Network error occurred", 0)
         ELSE MkError("SDKError", error.message, 0)
    ELSE MkError("SDKError", "An unknown error occurred", 0)

\* error instanceof RateLimitError || error instanceof NetworkError
IsTransient(error) == error.cls \in {"RateLimitError", "NetworkError"}

----------------------------------------------------------------------------
(* Provider responses, failures and requests *)

\* completion.choices[0]: present is FALSE when choices is empty; content is
\* <<>> for the empty string
MkResponse(present, text, finish) ==
    [present |-> present, content |-> text, finish_reason |-> finish]

NoResponse == MkResponse(FALSE, <<>>, "absent")

\* the segments a provider answers with
Segments ==
    { <<"w">>, <<"w", "...", " ">>, <<"\\begin{", "w", "}">>,
      <<"\\end{", "w", "}">>, <<"{">> }

\* choice.finish_reason: 'stop', 'length', or not given
FinishReasons == {"stop", "length", "absent"}

\* what chat.completions.create resolves with (OpenAIService)
OpenAIResponses ==
    {MkResponse(TRUE, seg, f) : seg \in Segments, f \in FinishReasons}
    \cup {MkResponse(TRUE, <<>>, "stop"), NoResponse}

\* what createChatCompletion resolves with: the text of the Gemini result,
\* always with finish_reason 'stop'
GeminiOpenAIResponses ==
    {MkResponse(TRUE, seg, "stop") : seg \in Segments \cup {<<>>}}

\* what chat.sendMessage resolves with: result.response.text()
GeminiResponses ==
    {MkResponse(TRUE, seg, "absent") : seg \in Segments \cup {<<>>}}

ProviderResponses(svc) ==
    IF svc = "OpenAIService" THEN OpenAIResponses
    ELSE IF svc = "GeminiOpenAIService" THEN GeminiOpenAIResponses
    ELSE GeminiResponses

\* the errors a provider client throws: classes of the client library, none
\* of them a class of error.utils
RawProviderErrors ==
    { MkError("Error", m, 0) :
        m \in {"rate limit exceeded", "network error", "internal server error"} }

\* the error the operation given to withRetry rejects with, thrown by
\* invocation number id: createChatCompletion passes the client's error
\* through handleError, the other two services give the client call itself
OperationError(svc, raw, id) ==
    IF svc = "GeminiOpenAIService"
    THEN [handleError(raw) EXCEPT !.id = id]
    ELSE [raw EXCEPT !.id = id]

MkMessage(role, text) == [role |-> role, content |-> text]

\* the message lists the public methods build: system + user, or system only
\* (refineSection)
CallerMessages ==
    { << MkMessage("system", <<"instructions">>), MkMessage("user", <<"transcript">>) >>,
      << MkMessage("system", <<"refine">>) >> }

\* `Continue from: ${content}`
ContinueFrom(text) == <<"Continue from: ">> \o text

\* mutant of ContinuationMessages: the last message is kept instead of the
\* first
ContinuationMessages_KeepLast(msgs, text) ==
    << msgs[Len(msgs)], MkMessage("user", ContinueFrom(text)) >>

\* the rewritten message list of a continuation request
ContinuationMessages(msgs, text) ==
    << msgs[1], MkMessage("user", ContinueFrom(text)) >>

\* what one provider invocation is given. OpenAIService: the local variable
\* messages. GeminiOpenAIService: built from content at the call.
\* GeminiService: the text given to chat.sendMessage, the prompt being the
\* last caller message.
Request(svc, msgs, text) ==
    IF svc = "OpenAIService" THEN msgs
    ELSE IF svc = "GeminiOpenAIService"
    THEN IF text # <<>> THEN ContinuationMessages(msgs, text) ELSE msgs
    ELSE LET prompt == msgs[Len(msgs)].content IN
         IF text # <<>>
         THEN << MkMessage("user", ContinueFrom(text) \o <<"\n">> \o prompt) >>
         ELSE << MkMessage("user", prompt) >>

----------------------------------------------------------------------------
(* Retry options *)

\* DEFAULT_OPTIONS of withRetry
DEFAULT_OPTIONS ==
    [maxRetries |-> 3, initialDelay |-> 1000, maxDelay |-> 10000,
     backoffFactor |-> 2]

\* the options explored when withRetry is called directly
RetryOptionSets ==
    { [maxRetries |-> n, initialDelay |-> i, maxDelay |-> m, backoffFactor |-> b] :
        n \in 1..MaxRetriesBound, i \in {1, 3}, m \in {2, 4}, b \in {2, 3} }

\* what the operation of a direct withRetry call resolves with
FnResults == {MkResponse(TRUE, <<"success">>, "stop")}

\* what the operation of a direct withRetry call rejects with
FnErrors ==
    { MkError("RateLimitError", "rate limit", 0),
      MkError("NetworkError", "network error", 0),
      MkError("Error", "other error", 0),
      MkError("OpenAIError", "bad request", 0) }

Min(a, b) == IF a <= b THEN a ELSE b

----------------------------------------------------------------------------
(* Request throttler: constants and pure parts *)

\* new RequestThrottler(10)
requestsPerSecond == 10

\* this.minDelay = 1000 / requestsPerSecond, in milliseconds
minDelay == 1000 \div requestsPerSecond

\* the clock of the model advances in steps of half a minDelay
TickStep == minDelay \div 2

\* Date.now() when the first add() is made: far more than minDelay after
\* the initial lastRequestTime of 0
StartTime == 10 * minDelay

\* the settlements of an operation
SettleKinds == {"value", "error"}

\* what a promise settled with: the value or the error of operation op
MkOutcome(kind, op) == [kind |-> kind, of |-> op]

Pending == MkOutcome("pending", 0)

\* a processQueue call: where it is, the operation of its current task,
\* the end of its sleep, how its current task settled
MkLoop(pc, op, wakeAt, task) ==
    [pc |-> pc, op |-> op, wakeAt |-> wakeAt, task |-> task]

NoLoop == MkLoop("none", 0, 0, "none")

\* mutant of ThrottleWait: never waits
ThrottleWait_Never(nowT, last, minD) == 0

\* mutant of ThrottleWait: always waits a full minDelay
ThrottleWait_Always(nowT, last, minD) == minD

\* mutant of ThrottleWait: a wait is always a full minDelay
ThrottleWait_FullDelay(nowT, last, minD) ==
    IF nowT - last < minD THEN minD ELSE 0

\* executeWithThrottle: the sleep before the operation starts (0: no sleep)
ThrottleWait(nowT, last, minD) ==
    LET timeSinceLastRequest == nowT - last IN
    IF timeSinceLastRequest < minD THEN minD - timeSinceLastRequest ELSE 0

\* mutant of Shift: the newest task is taken
Shift_Last(q) ==
    [task |-> q[Len(q)], rest |-> SubSeq(q, 1, Len(q) - 1)]

\* this.queue.shift(): the task taken and the queue left
Shift(q) == [task |-> Head(q), rest |-> Tail(q)]

\* mutant of StartsProcessing: neither test of this.processing is made
StartsProcessing_Unguarded(proc, qlen) == qlen # 0

\* add's test before calling processQueue and processQueue's own test:
\* whether the call goes on to the while loop
StartsProcessing(proc, qlen) == ~proc /\ ~(proc \/ qlen = 0)

\* mutant of TaskSettlement: the task has no try/catch
TaskSettlement_NoCatch(kind) ==
    IF kind = "error" THEN "rejected" ELSE "resolved"

\* how the task queued by add settles when its operation settled with
\* kind: the try/catch hands the error to reject
TaskSettlement(kind) == "resolved"

----------------------------------------------------------------------------
(* State *)

VARIABLES
    service,        \* the class of the service object
    validation,     \* this.config.responseValidation
    maxAttempts,    \* this.config.maxAttempts
    callerMessages, \* the messages argument as the caller gave it
    messages,       \* the local variable messages of the loop
    content,        \* the local variable content: the accumulated text
    attempts,       \* the local variable attempts
    lpc,            \* where the loop is: none, idle, queued, awaiting,
                    \* returned, threw
    returned,       \* the text the loop returned
    thrown,         \* the error the loop threw
    responses,      \* history: the responses the loop received, in order
    admissions,     \* history: number of throttler.add calls of the loop
    opts,           \* withRetry: opts
    delay,          \* withRetry: delay
    attempt,        \* withRetry: attempt
    rpc,            \* where withRetry is: idle, calling, sleeping,
                    \* resolved, rejected
    rvalue,         \* the value withRetry resolved with
    rerror,         \* the error withRetry rejected with
    invocations,    \* history: number of invocations of the operation
    errors,         \* history: the errors of the rejected invocations
    sleeps,         \* history: the delays slept, in order
    sent            \* history: the request of each invocation, in order

configVars == <<service, validation, maxAttempts>>
loopVars == <<callerMessages, messages, content, attempts, lpc, returned,
              thrown, responses, admissions>>
retryVars == <<opts, delay, attempt, rpc, rvalue, rerror, invocations,
               errors, sleeps, sent>>

VARIABLES
    now,            \* Date.now()
    queue,          \* RequestThrottler.queue: the queued tasks, by operation
    processing,     \* RequestThrottler.processing
    lastRequestTime,\* RequestThrottler.lastRequestTime
    loops,          \* the processQueue calls that have not returned: where
                    \* each is, its current task, the end of its sleep
    added,          \* history: number of add() calls
    dispatched,     \* history: each operation started and the instant
    settled,        \* history: the operations settled, in order
    fnOutcome,      \* history: what each operation settled with
    callerOutcome,  \* what the promise returned by add() settled with
    expired         \* history: operations whose caller's deadline expired
                    \* before they were started

VARIABLES
    vtext,          \* isResponseComplete: the argument content
    verdict         \* isResponseComplete: "none" before the call, then
                    \* "complete" or "incomplete"

throttleVars == <<now, queue, processing, lastRequestTime, loops, added,
                  dispatched, settled, fnOutcome, callerOutcome, expired>>
VARIABLES
    herror,         \* handleError: the argument error
    hthrown,        \* handleError: NoError before the call, then the error
                    \* it threw
    hcaller         \* NoError, then the error the enclosing catch block
                    \* threw after passing hthrown through handleError again

VARIABLES
    eqInput,        \* the responses the provider gives, in order, to the
                    \* loop of either service
    eqResult        \* per service: NoResult, then how its loop ended

VARIABLES
    extraCalls,     \* the provider requests made inside admitted operations
                    \* after their start: by whom, when and why
    opState         \* per operation: the attempt counter of its withRetry
                    \* and the requests made in the current invocation

VARIABLES
    clientPc,       \* per concurrent continuation loop: "idle", "waiting"
                    \* (in await throttler.add), "done"
    clientAttempts, \* per loop: its attempts counter
    clientOp,       \* per loop: the operation it has added last, 0 if none
    owner           \* per operation: the loop that added it, 0 if none

validatorVars == <<vtext, verdict>>
clientVars == <<clientPc, clientAttempts, clientOp, owner>>
callVars == <<extraCalls, opState>>
equivVars == <<eqInput, eqResult>>
handlerVars == <<herror, hthrown, hcaller>>
vars == <<configVars, clientVars, callVars, equivVars, loopVars, retryVars, throttleVars, validatorVars,
          handlerVars>>

InitRetryState ==
    /\ delay = 0
    /\ attempt = 0
    /\ rpc = "idle"
    /\ rvalue = NoResponse
    /\ rerror = NoError
    /\ invocations = 0
    /\ errors = <<>>
    /\ sleeps = <<>>
    /\ sent = <<>>

\* new RequestThrottler(requestsPerSecond), no add() made yet
InitThrottleState ==
    /\ now = StartTime
    /\ queue = <<>>
    /\ processing = FALSE
    /\ lastRequestTime = 0
    /\ loops = [l \in 1..MaxOps |-> NoLoop]
    /\ added = 0
    /\ dispatched = <<>>
    /\ settled = <<>>
    /\ fnOutcome = [k \in 1..MaxOps |-> Pending]
    /\ callerOutcome = [k \in 1..MaxOps |-> Pending]
    /\ expired = {}

InitValidatorState ==
    /\ vtext = <<>>
    /\ verdict = "none"

\* how a loop ended: "returned" with its text or "threw" with its error,
\* after calls provider calls
MkResult(kind, text, error, calls) ==
    [kind |-> kind, text |-> text, error |-> error, calls |-> calls]

NoResult == MkResult("none", <<>>, NoError, 0)

\* the two services built on the chat-completion interface
ChatServices == {"OpenAIService", "GeminiOpenAIService"}

InitEquivState ==
    /\ eqInput = <<>>
    /\ eqResult = [svc \in ChatServices |-> NoResult]

\* withRetry of an operation before its first failure, its first request
\* made
FirstInvocation == [attempt |-> 0, sent |-> 1]

InitCallState ==
    /\ extraCalls = <<>>
    /\ opState = [k \in 1..MaxOps |-> FirstInvocation]

InitClientState ==
    /\ clientPc = [c \in 1..NumLoops |-> "idle"]
    /\ clientAttempts = [c \in 1..NumLoops |-> 0]
    /\ clientOp = [c \in 1..NumLoops |-> 0]
    /\ owner = [k \in 1..MaxOps |-> 0]

InitHandlerState ==
    /\ herror = NoError
    /\ hthrown = NoError
    /\ hcaller = NoError

InitLoopState(pc) ==
    /\ callerMessages = <<>>
    /\ messages = <<>>
    /\ content = <<>>
    /\ attempts = 0
    /\ lpc = pc
    /\ returned = <<>>
    /\ thrown = NoError
    /\ responses = <<>>
    /\ admissions = 0

\* a service object after construction with the default responseValidation
\* (validateConfig: maxAttempts >= 1); its loops call withRetry with the
\* default options
Init ==
    /\ service \in Services
    /\ validation = defaultValidation
    /\ maxAttempts \in 1..MaxAttemptsBound
    /\ opts = DEFAULT_OPTIONS
    /\ InitLoopState("idle")
    /\ InitRetryState
    /\ InitThrottleState
    /\ InitClientState
    /\ InitCallState
    /\ InitEquivState
    /\ InitValidatorState
    /\ InitHandlerState

\* withRetry about to be called directly with some options
InitRetry ==
    /\ service = "OpenAIService"
    /\ validation = defaultValidation
    /\ maxAttempts = 1
    /\ opts \in RetryOptionSets
    /\ InitLoopState("none")
    /\ InitRetryState
    /\ InitThrottleState
    /\ InitClientState
    /\ InitCallState
    /\ InitEquivState
    /\ InitValidatorState
    /\ InitHandlerState

----------------------------------------------------------------------------
(* withRetry *)

\* one invocation of fn(): counted, and its request logged when the
\* operation is a provider call of the loop
Invoke ==
    /\ invocations' = invocations + 1
    /\ sent' = IF lpc = "none" THEN sent
               ELSE Append(sent, Request(service, messages, content))

\* withRetry(fn, options) up to the first await fn()
withRetryStart ==
    /\ rpc = "idle"
    /\ delay' = opts.initialDelay
    /\ attempt' = 0
    /\ rpc' = "calling"
    /\ Invoke
    /\ UNCHANGED <<opts, rvalue, rerror, errors, sleeps>>

\* fn() resolves: return await fn()
withRetryResolve(value) ==
    /\ rpc = "calling"
    /\ rpc' = "resolved"
    /\ rvalue' = value
    /\ UNCHANGED <<opts, delay, attempt, rerror, invocations, errors,
                   sleeps, sent>>

\* mutant of CatchDecision: gives up one attempt early
CatchDecision_EarlyGiveUp(error, attemptNow, maxRetries) ==
    IF attemptNow + 1 >= maxRetries THEN "throw"
    ELSE IF IsTransient(error) THEN "sleep"
    ELSE "throw"

\* mutant of CatchDecision: allows one attempt too many
CatchDecision_OneMore(error, attemptNow, maxRetries) ==
    IF attemptNow > maxRetries THEN "throw"
    ELSE IF IsTransient(error) THEN "sleep"
    ELSE "throw"

\* mutant of CatchDecision: retries whatever the error is
CatchDecision_RetryAll(error, attemptNow, maxRetries) ==
    IF attemptNow >= maxRetries THEN "throw" ELSE "sleep"

\* mutant of CatchDecision: never gives up
CatchDecision_NeverGiveUp(error, attemptNow, maxRetries) == "sleep"

\* what the catch block does with the error: "throw" or "sleep"
CatchDecision(error, attemptNow, maxRetries) ==
    IF attemptNow >= maxRetries THEN "throw"
    ELSE IF IsTransient(error) THEN "sleep"
    ELSE "throw"

\* mutant of withRetryCatch: the sleep is taken before the tests, also when
\* the error is then thrown
withRetryCatch_SleepFirst(error) ==
    /\ rpc = "calling"
    /\ attempt' = attempt + 1
    /\ errors' = Append(errors, error)
    /\ sleeps' = Append(sleeps, delay)
    /\ IF CatchDecision(error, attempt + 1, opts.maxRetries) = "throw"
       THEN /\ rpc' = "rejected"
            /\ rerror' = error
       ELSE /\ rpc' = "sleeping"
            /\ rerror' = rerror
    /\ UNCHANGED <<opts, delay, rvalue, invocations, sent>>

\* fn() rejects: the catch block up to throw or await sleep(delay)
withRetryCatch(error) ==
    /\ rpc = "calling"
    /\ attempt' = attempt + 1
    /\ errors' = Append(errors, error)
    /\ IF CatchDecision(error, attempt + 1, opts.maxRetries) = "throw"
       THEN /\ rpc' = "rejected"
            /\ rerror' = error
            /\ sleeps' = sleeps
       ELSE /\ rpc' = "sleeping"
            /\ rerror' = rerror
            /\ sleeps' = Append(sleeps, delay)
    /\ UNCHANGED <<opts, delay, rvalue, invocations, sent>>

\* mutant of NextDelay: the delay is not capped
NextDelay_Uncapped(d, o) == d * o.backoffFactor

\* delay = Math.min(delay * opts.backoffFactor, opts.maxDelay)
NextDelay(d, o) == Min(d * o.backoffFactor, o.maxDelay)

\* the sleep ends: the delay is raised, the loop continues with fn()
withRetryWake ==
    /\ rpc = "sleeping"
    /\ delay' = NextDelay(delay, opts)
    /\ rpc' = "calling"
    /\ Invoke
    /\ UNCHANGED <<opts, attempt, rvalue, rerror, errors, sleeps>>

----------------------------------------------------------------------------
(* The continuation loops *)

\* mutant of WhileCondition: the test lets one more pass through
WhileCondition_OffByOne(a, max) == a <= max

\* while (attempts < this.config.maxAttempts)
WhileCondition(a, max) == a < max

\* mutant of IsEmptyContent: only a missing content counts, '' does not
IsEmptyContent_MissingOnly(resp) == ~resp.present

\* !newContent: the choice or its content is missing, or it is ''
IsEmptyContent(resp) == ~resp.present \/ resp.content = <<>>

\* mutant of Accumulate: the new content replaces the text
Accumulate_Overwrite(text, newContent) == newContent

\* content = content ? content + '\n' + newContent : newContent
Accumulate(text, newContent) ==
    IF text # <<>> THEN text \o Separator \o newContent ELSE newContent

\* the error a loop throws for an empty response, before handleError
EmptyResponseError(svc) ==
    IF svc = "OpenAIService" THEN MkError("OpenAIError", errorMessage, 0)
    ELSE MkError("Error", errorMessage, 0)

\* the error a loop throws when the final text is incomplete, before
\* handleError
IncompleteError(svc) ==
    IF svc = "OpenAIService" THEN MkError("OpenAIError", IncompleteMessage, 0)
    ELSE MkError("Error", IncompleteMessage, 0)

\* One pass through the body of the while loop after the await, as the
\* decision it ends with: "throw" (empty response), "break" or "continue",
\* and the values of content, messages and attempts it leaves.
Iteration(kind, text, msgs, a) ==
    [kind |-> kind, content |-> text, messages |-> msgs, attempts |-> a]

\* mutant of OpenAIBody: without the fallback to the validator when the
\* finish signal is not stop
OpenAIBody_NoFallback(resp, text, msgs, a, v) ==
    IF IsEmptyContent(resp) THEN Iteration("throw", text, msgs, a)
    ELSE LET c == Accumulate(text, resp.content) IN
         IF resp.finish_reason = "stop" /\ isResponseCompleteOpenAI(c, v)
         THEN Iteration("break", c, msgs, a)
         ELSE Iteration("continue", c, ContinuationMessages(msgs, c), a + 1)

\* mutant of OpenAIBody: the stop signal alone ends the loop
OpenAIBody_StopEnds(resp, text, msgs, a, v) ==
    IF IsEmptyContent(resp) THEN Iteration("throw", text, msgs, a)
    ELSE LET c == Accumulate(text, resp.content) IN
         IF resp.finish_reason = "stop"
         THEN Iteration("break", c, msgs, a)
         ELSE IF resp.finish_reason = "length"
         THEN Iteration("continue", c, ContinuationMessages(msgs, c), a + 1)
         ELSE IF isResponseCompleteOpenAI(c, v)
         THEN Iteration("break", c, msgs, a)
         ELSE Iteration("continue", c, ContinuationMessages(msgs, c), a + 1)

\* mutant of OpenAIBody: a continuation after the length signal is not
\* counted
OpenAIBody_LengthNotCounted(resp, text, msgs, a, v) ==
    IF IsEmptyContent(resp) THEN Iteration("throw", text, msgs, a)
    ELSE LET c == Accumulate(text, resp.content) IN
         IF resp.finish_reason = "stop" /\ isResponseCompleteOpenAI(c, v)
         THEN Iteration("break", c, msgs, a)
         ELSE IF resp.finish_reason = "length"
         THEN Iteration("continue", c, ContinuationMessages(msgs, c), a)
         ELSE IF isResponseCompleteOpenAI(c, v)
         THEN Iteration("break", c, msgs, a)
         ELSE Iteration("continue", c, ContinuationMessages(msgs, c), a + 1)

\* mutant of OpenAIBody: the validator is given the latest segment only
OpenAIBody_SegmentOnly(resp, text, msgs, a, v) ==
    IF IsEmptyContent(resp) THEN Iteration("throw", text, msgs, a)
    ELSE LET c == Accumulate(text, resp.content) IN
         IF resp.finish_reason = "stop"
            /\ isResponseCompleteOpenAI(resp.content, v)
         THEN Iteration("break", c, msgs, a)
         ELSE IF resp.finish_reason = "length"
         THEN Iteration("continue", c, ContinuationMessages(msgs, c), a + 1)
         ELSE IF isResponseCompleteOpenAI(resp.content, v)
         THEN Iteration("break", c, msgs, a)
         ELSE Iteration("continue", c, ContinuationMessages(msgs, c), a + 1)

\* OpenAIService.generateWithCompletion, body of the while loop
OpenAIBody(resp, text, msgs, a, v) ==
    IF IsEmptyContent(resp) THEN Iteration("throw", text, msgs, a)
    ELSE LET c == Accumulate(text, resp.content) IN
         IF resp.finish_reason = "stop" /\ isResponseCompleteOpenAI(c, v)
         THEN Iteration("break", c, msgs, a)
         ELSE IF resp.finish_reason = "length"
         THEN Iteration("continue", c, ContinuationMessages(msgs, c), a + 1)
         ELSE IF isResponseCompleteOpenAI(c, v)
         THEN Iteration("break", c, msgs, a)
         ELSE Iteration("continue", c, ContinuationMessages(msgs, c), a + 1)

\* GeminiOpenAIService.generateWithModel, body of the while loop
GeminiOpenAIBody(resp, text, msgs, a, v) ==
    IF IsEmptyContent(resp) THEN Iteration("throw", text, msgs, a)
    ELSE LET c == Accumulate(text, resp.content) IN
         IF resp.finish_reason = "stop" /\ isResponseCompleteGemini(c, v)
         THEN Iteration("break", c, msgs, a)
         ELSE IF ~isResponseCompleteGemini(c, v)
         THEN Iteration("continue", c, msgs, a + 1)
         ELSE Iteration("break", c, msgs, a)

\* GeminiService.generateWithModel, body of the while loop
GeminiBody(resp, text, msgs, a, v) ==
    LET c == Accumulate(text, resp.content) IN
    IF isResponseCompleteGemini(c, v)
    THEN Iteration("break", c, msgs, a)
    ELSE Iteration("continue", c, msgs, a + 1)

LoopBody(svc, resp, text, msgs, a, v) ==
    IF svc = "OpenAIService" THEN OpenAIBody(resp, text, msgs, a, v)
    ELSE IF svc = "GeminiOpenAIService" THEN GeminiOpenAIBody(resp, text, msgs, a, v)
    ELSE GeminiBody(resp, text, msgs, a, v)

\* mutant of FinalCheck: the check after the loop is left out
FinalCheck_Skipped(svc, text, v) == TRUE

\* if (!this.isResponseComplete(content)) throw ...; return content
FinalCheck(svc, text, v) == isResponseComplete(svc, text, v)

\* the loop throws: catch (error) { throw handleError(error) }
LoopThrow(error) ==
    /\ lpc' = "threw"
    /\ thrown' = handleError(error)
    /\ UNCHANGED <<returned, admissions>>

\* the code after the while loop
LoopFinish(text) ==
    IF FinalCheck(service, text, validation)
    THEN /\ lpc' = "returned"
         /\ returned' = text
         /\ UNCHANGED <<thrown, admissions>>
    ELSE LoopThrow(IncompleteError(service))

\* the test of the while loop and what follows from it: the next
\* throttler.add, or the code after the loop
LoopTop(text, a) ==
    IF WhileCondition(a, maxAttempts)
    THEN /\ lpc' = "queued"
         /\ admissions' = admissions + 1
         /\ UNCHANGED <<returned, thrown>>
    ELSE LoopFinish(text)

\* a public method calls the loop with its messages
Call(msgs) ==
    /\ lpc = "idle"
    /\ callerMessages' = msgs
    /\ messages' = msgs
    /\ content' = <<>>
    /\ attempts' = 0
    /\ LoopTop(<<>>, 0)
    /\ UNCHANGED <<responses, configVars, clientVars, callVars, equivVars, retryVars, throttleVars,
                   validatorVars, handlerVars>>

\* the throttler starts the queued operation: withRetry(() => provider call)
Dispatch ==
    /\ lpc = "queued"
    /\ lpc' = "awaiting"
    /\ withRetryStart
    /\ UNCHANGED <<callerMessages, messages, content, attempts, returned,
                   thrown, responses, admissions, configVars, clientVars, callVars, equivVars,
                   throttleVars, validatorVars, handlerVars>>

\* await throttler.add(...) resolves: the rest of the loop body, the loop
\* test, and the next add or the final check
Resume ==
    /\ lpc = "awaiting"
    /\ rpc = "resolved"
    /\ LET it == LoopBody(service, rvalue, content, messages, attempts, validation) IN
        /\ responses' = Append(responses, rvalue)
        /\ content' = it.content
        /\ messages' = it.messages
        /\ attempts' = it.attempts
        /\ IF it.kind = "throw" THEN LoopThrow(EmptyResponseError(service))
           ELSE IF it.kind = "break" THEN LoopFinish(it.content)
           ELSE LoopTop(it.content, it.attempts)
    /\ rpc' = "idle"
    /\ UNCHANGED <<callerMessages, configVars, clientVars, callVars, equivVars, throttleVars, validatorVars, handlerVars,
                   opts, delay, attempt, rvalue,
                   rerror, invocations, errors, sleeps, sent>>

\* await throttler.add(...) rejects: the catch block of the loop
Catch ==
    /\ lpc = "awaiting"
    /\ rpc = "rejected"
    /\ LoopThrow(rerror)
    /\ rpc' = "idle"
    /\ UNCHANGED <<callerMessages, messages, content, attempts, responses,
                   configVars, clientVars, callVars, equivVars, throttleVars, validatorVars, handlerVars, opts, delay,
                   attempt, rvalue, rerror,
                   invocations, errors, sleeps, sent>>

\* the provider answers the invocation in flight
ProviderResolves(resp) ==
    /\ lpc = "awaiting"
    /\ withRetryResolve(resp)
    /\ UNCHANGED <<configVars, clientVars, callVars, equivVars, loopVars, throttleVars, validatorVars, handlerVars>>

\* the provider call in flight fails
ProviderRejects(raw) ==
    /\ lpc = "awaiting"
    /\ Len(errors) < MaxFailures
    /\ withRetryCatch(OperationError(service, raw, invocations))
    /\ UNCHANGED <<configVars, clientVars, callVars, equivVars, loopVars, throttleVars, validatorVars, handlerVars>>

\* a backoff sleep inside an admitted operation ends
Wake ==
    /\ lpc = "awaiting"
    /\ withRetryWake
    /\ UNCHANGED <<configVars, clientVars, callVars, equivVars, loopVars, throttleVars, validatorVars, handlerVars>>

Next ==
    \/ \E msgs \in CallerMessages : Call(msgs)
    \/ Dispatch
    \/ \E resp \in ProviderResponses(service) : ProviderResolves(resp)
    \/ \E raw \in RawProviderErrors : ProviderRejects(raw)
    \/ Wake
    \/ Resume
    \/ Catch

Spec == Init /\ [][Next]_vars

----------------------------------------------------------------------------
(* withRetry called directly *)

RetryCall ==
    /\ lpc = "none"
    /\ withRetryStart
    /\ UNCHANGED <<configVars, clientVars, callVars, equivVars, loopVars, throttleVars, validatorVars, handlerVars>>

FnResolves(value) ==
    /\ lpc = "none"
    /\ withRetryResolve(value)
    /\ UNCHANGED <<configVars, clientVars, callVars, equivVars, loopVars, throttleVars, validatorVars, handlerVars>>

FnRejects(error) ==
    /\ lpc = "none"
    /\ withRetryCatch([error EXCEPT !.id = invocations])
    /\ UNCHANGED <<configVars, clientVars, callVars, equivVars, loopVars, throttleVars, validatorVars, handlerVars>>

RetryWake ==
    /\ lpc = "none"
    /\ withRetryWake
    /\ UNCHANGED <<configVars, clientVars, callVars, equivVars, loopVars, throttleVars, validatorVars, handlerVars>>

NextRetry ==
    \/ RetryCall
    \/ \E value \in FnResults : FnResolves(value)
    \/ \E error \in FnErrors : FnRejects(error)
    \/ RetryWake

SpecRetry == InitRetry /\ [][NextRetry]_vars

----------------------------------------------------------------------------
(* RequestThrottler on its own *)

\* the throttler after construction, no service loop running
InitThrottle ==
    /\ service = "OpenAIService"
    /\ validation = defaultValidation
    /\ maxAttempts = 1
    /\ opts = DEFAULT_OPTIONS
    /\ InitLoopState("none")
    /\ InitRetryState
    /\ InitThrottleState
    /\ InitClientState
    /\ InitCallState
    /\ InitEquivState
    /\ InitValidatorState
    /\ InitHandlerState

\* executeWithThrottle after its sleep (slept) or with no sleep:
\* lastRequestTime is set and the operation is started by processQueue call l
StartFn(l, op, slept) ==
    /\ lastRequestTime' = now
    /\ dispatched' = Append(dispatched, [op |-> op, at |-> now, slept |-> slept])
    /\ loops' = [loops EXCEPT ![l] = MkLoop("inflight", op, 0, "none")]

\* one turn of the while loop of processQueue call l on queue q, up to the
\* first await: shift, then executeWithThrottle up to its sleep or to the
\* start of the operation
RunTask(l, q) ==
    LET sh == Shift(q)
        wait == ThrottleWait(now, lastRequestTime, minDelay) IN
    /\ queue' = sh.rest
    /\ IF wait > 0
       THEN /\ loops' = [loops EXCEPT
                           ![l] = MkLoop("sleeping", sh.task, now + wait, "none")]
            /\ UNCHANGED <<lastRequestTime, dispatched>>
       ELSE StartFn(l, sh.task, FALSE)

\* add(fn): the task is queued and, if no processQueue call is running,
\* processQueue runs up to its first await
AddTask ==
    /\ added < MaxOps
    /\ LET k == added + 1
           q == Append(queue, k) IN
        /\ added' = k
        /\ IF StartsProcessing(processing, Len(q))
           THEN /\ processing' = TRUE
                /\ RunTask(k, q)
           ELSE /\ queue' = q
                /\ UNCHANGED <<processing, lastRequestTime, dispatched, loops>>
    /\ UNCHANGED <<now, settled, fnOutcome, callerOutcome, expired>>

\* add(fn) called by some caller
Add ==
    /\ AddTask
    /\ UNCHANGED <<configVars, clientVars, callVars, equivVars, loopVars, retryVars, validatorVars, handlerVars>>

\* time passes: up to the horizon of the model, and beyond it as long as a
\* timer of executeWithThrottle is still to fire
Tick ==
    /\ \/ now < StartTime + MaxTicks * TickStep
       \/ \E l \in 1..MaxOps :
            loops[l].pc = "sleeping" /\ now < loops[l].wakeAt
    /\ now' = now + TickStep
    /\ UNCHANGED <<queue, processing, lastRequestTime, loops, added,
                   dispatched, settled, fnOutcome, callerOutcome, expired>>
    /\ UNCHANGED <<configVars, clientVars, callVars, equivVars, loopVars, retryVars, validatorVars, handlerVars>>

\* the timer of sleep(minDelay - timeSinceLastRequest) fires, not before
\* its delay has passed: the rest of executeWithThrottle
WakeThrottle(l) ==
    /\ loops[l].pc = "sleeping"
    /\ now >= loops[l].wakeAt
    /\ StartFn(l, loops[l].op, TRUE)
    /\ UNCHANGED <<now, queue, processing, added, settled, fnOutcome,
                   callerOutcome, expired>>
    /\ UNCHANGED <<configVars, clientVars, callVars, equivVars, loopVars, retryVars, validatorVars, handlerVars>>

\* the operation in flight settles: the task hands its value to resolve or
\* its error to reject of the promise add returned for it
OpSettles(l, kind) ==
    /\ loops[l].pc = "inflight"
    /\ LET op == loops[l].op IN
        /\ fnOutcome' = [fnOutcome EXCEPT ![op] = MkOutcome(kind, op)]
        /\ callerOutcome' = [callerOutcome EXCEPT ![op] = MkOutcome(kind, op)]
        /\ settled' = Append(settled, op)
        /\ loops' = [loops EXCEPT
                       ![l] = MkLoop("resuming", op, 0, TaskSettlement(kind))]
    /\ UNCHANGED <<now, queue, processing, lastRequestTime, added,
                   dispatched, expired>>
    /\ UNCHANGED <<configVars, clientVars, callVars, equivVars, loopVars, retryVars, validatorVars, handlerVars>>

\* await task() is over in processQueue call l: the loop test, then the next
\* task or processing = false
DispatcherResumes(l) ==
    /\ loops[l].pc = "resuming"
    /\ IF loops[l].task = "rejected"
       THEN /\ loops' = [loops EXCEPT ![l] = MkLoop("threw", 0, 0, "none")]
            /\ UNCHANGED <<queue, processing, lastRequestTime, dispatched>>
       ELSE IF Len(queue) > 0
       THEN /\ RunTask(l, queue)
            /\ UNCHANGED processing
       ELSE /\ processing' = FALSE
            /\ loops' = [loops EXCEPT ![l] = MkLoop("returned", 0, 0, "none")]
            /\ UNCHANGED <<queue, lastRequestTime, dispatched>>
    /\ UNCHANGED <<now, added, settled, fnOutcome, callerOutcome, expired>>
    /\ UNCHANGED <<configVars, clientVars, callVars, equivVars, loopVars, retryVars, validatorVars, handlerVars>>

\* the deadline of the caller of operation k passes while its task waits in
\* the queue: add takes no deadline and no signal, nothing of the throttler
\* runs
DeadlineExpires(k) ==
    /\ \E i \in 1..Len(queue) : queue[i] = k
    /\ k \notin expired
    /\ expired' = expired \cup {k}
    /\ UNCHANGED <<now, queue, processing, lastRequestTime, loops, added,
                   dispatched, settled, fnOutcome, callerOutcome>>
    /\ UNCHANGED <<configVars, clientVars, callVars, equivVars, loopVars, retryVars, validatorVars, handlerVars>>

NextThrottle ==
    \/ Add
    \/ Tick
    \/ \E l \in 1..MaxOps : WakeThrottle(l)
    \/ \E l \in 1..MaxOps, kind \in SettleKinds : OpSettles(l, kind)
    \/ \E l \in 1..MaxOps : DispatcherResumes(l)
    \/ \E k \in 1..MaxOps : DeadlineExpires(k)

SpecThrottle == InitThrottle /\ [][NextThrottle]_vars

\* the event loop fires every timer and runs every continuation that is
\* ready, and every operation that was started settles
ThrottleFairness ==
    /\ WF_vars(Tick)
    /\ \A l \in 1..MaxOps :
        /\ WF_vars(WakeThrottle(l))
        /\ WF_vars(\E kind \in SettleKinds : OpSettles(l, kind))
        /\ WF_vars(DispatcherResumes(l))

SpecThrottleLive == InitThrottle /\ [][NextThrottle]_vars /\ ThrottleFairness

----------------------------------------------------------------------------
(* Histories read by the properties *)

\* the contents of responses 1..k joined by a newline, in arrival order
RECURSIVE JoinResponses(_)
JoinResponses(k) ==
    IF k = 0 THEN <<>>
    ELSE IF k = 1 THEN responses[1].content
    ELSE JoinResponses(k - 1) \o <<"\n">> \o responses[k].content

LastResponse == responses[Len(responses)]

\* the response carries no text: no choice, no content, or ''
HasNoText(resp) == ~resp.present \/ Len(resp.content) = 0

Finished == lpc \in {"returned", "threw"}

AllTransient == \A i \in 1..Len(errors) : IsTransient(errors[i])

\* after every response so far the accumulated text was judged incomplete
AlwaysIncomplete ==
    \A k \in 1..Len(responses) :
        /\ ~HasNoText(responses[k])
        /\ ~isResponseCompleteOpenAI(JoinResponses(k), validation)

\* response k has content, a finish signal other than length, and completes
\* the text accumulated up to it
Completes(k) ==
    /\ ~HasNoText(responses[k])
    /\ responses[k].finish_reason # "length"
    /\ isResponseComplete(service, JoinResponses(k), validation)

\* the delay withRetry holds for its i-th sleep under options o: delay
\* starts at initialDelay and is raised after each sleep
RECURSIVE BackoffDelay(_, _)
BackoffDelay(i, o) ==
    IF i = 1 THEN o.initialDelay
    ELSE LET previous == BackoffDelay(i - 1, o) IN
         IF previous * o.backoffFactor < o.maxDelay
         THEN previous * o.backoffFactor
         ELSE o.maxDelay

----------------------------------------------------------------------------
(* Properties *)

\* C1: in OpenAIService.generateWithCompletion, when the accumulated text is
\* judged incomplete after every response, the loop never admits or invokes
\* more than maxAttempts provider calls, never returns, and on the
\* maxAttempts-th response throws the OpenAIError 'Failed to generate
\* complete response after maximum attempts'.
C1_ExhaustionAfterMaxAttempts ==
    (service = "OpenAIService" /\ AlwaysIncomplete) =>
        /\ admissions <= maxAttempts
        /\ Len(responses) <= maxAttempts
        /\ lpc # "returned"
        /\ (errors = <<>> => invocations <= maxAttempts)
        /\ (Len(responses) = maxAttempts =>
               /\ lpc = "threw"
               /\ thrown = MkError("OpenAIError", IncompleteMessage, 0)
               /\ admissions = maxAttempts
               /\ (errors = <<>> => invocations = maxAttempts))
        /\ ((lpc = "threw" /\ errors = <<>>) => Len(responses) = maxAttempts)

C1_Witness ==
    /\ service = "OpenAIService"
    /\ maxAttempts = 3
    /\ AlwaysIncomplete
    /\ errors = <<>>
    /\ invocations = 3
    /\ lpc = "threw"
    /\ thrown.message = IncompleteMessage

\* C2: in OpenAIService.generateWithCompletion a response with finish signal
\* length never ends the loop with a returned text; when it uses up the
\* attempt budget the loop throws the exhaustion error, whatever the
\* validator says of the accumulated text.
C2_LengthNeverReturns ==
    (/\ service = "OpenAIService"
     /\ responses # <<>>
     /\ ~HasNoText(LastResponse)
     /\ LastResponse.finish_reason = "length") =>
        /\ lpc # "returned"
        /\ (attempts >= maxAttempts =>
               /\ lpc = "threw"
               /\ thrown = MkError("OpenAIError", IncompleteMessage, 0))

\* C3: once some response k has a finish signal other than length and
\* completes the accumulated text, the loop has returned on the first such
\* response: it received exactly k responses through k admissions (k
\* invocations when no invocation failed) and returned responses 1..k
\* joined by newlines.
C3_ReturnsAtFirstCompleteResponse ==
    \A k \in 1..Len(responses) :
        (Completes(k) /\ \A j \in 1..(k - 1) : ~Completes(j)) =>
            /\ lpc = "returned"
            /\ Len(responses) = k
            /\ k <= maxAttempts
            /\ admissions = k
            /\ (errors = <<>> => invocations = k)
            /\ returned = JoinResponses(k)

C3_Witness ==
    /\ service = "OpenAIService"
    /\ Len(responses) = 2
    /\ responses[1].finish_reason = "length"
    /\ responses[2].finish_reason = "stop"
    /\ lpc = "returned"
    /\ returned = responses[1].content \o <<"\n">> \o responses[2].content
    /\ invocations = 2

\* C4: a text returned by any of the three loops passes the validator of its
\* service, and a loop that ends with an accumulated text failing the
\* validator has thrown and returned nothing.
C4_ReturnedTextIsComplete ==
    /\ (lpc = "returned" =>
           /\ returned = content
           /\ isResponseComplete(service, returned, validation))
    /\ ((Finished /\ ~isResponseComplete(service, content, validation)) =>
           /\ lpc = "threw"
           /\ returned = <<>>)

C4_Witness ==
    /\ service = "GeminiService"
    /\ Finished
    /\ Len(responses) = maxAttempts
    /\ maxAttempts >= 2
    /\ ~isResponseComplete(service, content, validation)
    /\ thrown.message = IncompleteMessage

\* C5: in OpenAIService.generateWithCompletion a response without content,
\* or with the empty string, is the last one: the loop throws the
\* operation's OpenAIError at once, admits no further call and returns
\* nothing.
C5_EmptyResponseIsFatal ==
    \A k \in 1..Len(responses) :
        (service = "OpenAIService" /\ HasNoText(responses[k])) =>
            /\ k = Len(responses)
            /\ lpc = "threw"
            /\ thrown = MkError("OpenAIError", errorMessage, 0)
            /\ returned = <<>>
            /\ admissions = k
            /\ rpc = "idle"
            /\ content = JoinResponses(k - 1)

C5_Witness ==
    /\ service = "OpenAIService"
    /\ Len(responses) = 2
    /\ responses[2].present
    /\ responses[2].content = <<>>
    /\ content # <<>>
    /\ lpc = "threw"

\* C6: the accumulated text only grows: every step leaves the old text a
\* prefix of the new one, and a response that is appended makes the text the
\* new content alone (first response) or old text + newline + new content.
C6_AccumulatedTextAppendOnly ==
    [][/\ IsPrefix(content, content')
       /\ (content' # content =>
              /\ Len(responses') = Len(responses) + 1
              /\ content' = IF responses = <<>>
                            THEN rvalue.content
                            ELSE content \o <<"\n">> \o rvalue.content)]_vars

C6_Witness ==
    /\ Len(responses) = 3
    /\ content = responses[1].content \o <<"\n">> \o responses[2].content
                    \o <<"\n">> \o responses[3].content

\* C7: in OpenAIService and GeminiOpenAIService every request of a loop has
\* the caller's first message as its first message; the request in flight
\* is the caller's list before any response, and afterwards exactly that
\* first message followed by a user message 'Continue from: ' + the whole
\* accumulated text.
C7_FirstMessagePreserved ==
    service \in {"OpenAIService", "GeminiOpenAIService"} =>
        /\ \A i \in 1..Len(sent) : sent[i][1] = callerMessages[1]
        /\ (lpc = "awaiting" =>
               sent[Len(sent)] =
                   IF responses = <<>> THEN callerMessages
                   ELSE << callerMessages[1],
                           MkMessage("user", <<"Continue from: ">> \o content) >>)

C7_Witness ==
    /\ service = "OpenAIService"
    /\ Len(callerMessages) = 2
    /\ lpc = "awaiting"
    /\ Len(responses) = 2
    /\ Len(sent) = 3
    /\ sent[1] = callerMessages
    /\ sent[3][2].content = <<"Continue from: ">> \o content

\* C8: withRetry keeps going while fewer than maxRetries invocations have
\* failed, all with a RateLimitError or NetworkError, and when the next
\* invocation succeeds it resolves with that result after exactly
\* (number of failures + 1) invocations.
C8_RetrySucceedsAfterTransientFailures ==
    (AllTransient /\ Len(errors) < opts.maxRetries) =>
        /\ rpc # "rejected"
        /\ (rpc = "resolved" =>
               /\ invocations = Len(errors) + 1
               /\ rvalue \in FnResults)

C8_Witness ==
    /\ lpc = "none"
    /\ rpc = "resolved"
    /\ AllTransient
    /\ Len(errors) = 2
    /\ opts.maxRetries = 3
    /\ invocations = 3

\* C9: when every invocation fails with a RateLimitError or NetworkError,
\* withRetry invokes the operation exactly maxRetries times and rejects
\* with the error object of the last invocation.
C9_RetryGivesUpAfterMaxRetries ==
    AllTransient =>
        /\ invocations <= opts.maxRetries
        /\ (Len(errors) = opts.maxRetries => rpc = "rejected")
        /\ (rpc = "rejected" =>
               /\ invocations = opts.maxRetries
               /\ rerror = errors[Len(errors)]
               /\ rerror.id = invocations)

C9_Witness ==
    /\ lpc = "none"
    /\ rpc = "rejected"
    /\ AllTransient
    /\ opts.maxRetries = 3
    /\ invocations = 3
    /\ errors[1].cls # errors[3].cls

\* C10: an error that is neither RateLimitError nor NetworkError ends
\* withRetry whenever it occurs: it is the last error, no invocation and no
\* sleep follow it, and withRetry rejects with that error object.
C10_NonTransientNotRetried ==
    \A i \in 1..Len(errors) :
        ~IsTransient(errors[i]) =>
            /\ i = Len(errors)
            /\ rpc = "rejected"
            /\ rerror = errors[i]
            /\ rerror.id = i
            /\ invocations = i
            /\ Len(sleeps) = i - 1

C10_Witness ==
    /\ lpc = "none"
    /\ Len(errors) = 2
    /\ IsTransient(errors[1])
    /\ ~IsTransient(errors[2])
    /\ opts.maxRetries = 3
    /\ rpc = "rejected"


----------------------------------------------------------------------------
(* isResponseComplete of the three services on its own *)

\* the tokens of the texts given to the validator
Alphabet ==
    {"w", " ", "...", "[continued]", "\\begin{", "\\end{", Fence, "{", "]"}

\* the texts of at most MaxTextLen tokens
Texts == UNION {[1..n -> Alphabet] : n \in 0..MaxTextLen}

\* config.responseValidation as a caller may set it: any subset of the
\* three checks, with no indicator, one, or the two of the model
ValidationConfigs ==
    { [checkLaTeXBalance |-> l, checkCodeBlocks |-> c, checkJsonBalance |-> j,
       customIndicators |-> ind] :
        l \in BOOLEAN, c \in BOOLEAN, j \in BOOLEAN,
        ind \in {{}, {"..."}, customIndicators} }

\* a service with some responseValidation, about to validate a text
InitValidator ==
    /\ service \in Services
    /\ validation \in ValidationConfigs
    /\ maxAttempts = 1
    /\ opts = DEFAULT_OPTIONS
    /\ InitLoopState("none")
    /\ InitRetryState
    /\ InitThrottleState
    /\ InitClientState
    /\ InitCallState
    /\ InitEquivState
    /\ vtext \in Texts
    /\ verdict = "none"
    /\ InitHandlerState

\* this.isResponseComplete(vtext)
Validate ==
    /\ verdict = "none"
    /\ verdict' = IF isResponseComplete(service, vtext, validation)
                  THEN "complete" ELSE "incomplete"
    /\ UNCHANGED <<vtext, configVars, clientVars, callVars, equivVars, loopVars, retryVars, throttleVars,
                   handlerVars>>

NextValidator == Validate

SpecValidator == InitValidator /\ [][NextValidator]_vars

\* the rules of the validator
Rules == {"indicator", "latex", "code", "json"}

\* whether a rule is enabled by a responseValidation
Enabled(rule, cfg) ==
    IF rule = "indicator" THEN cfg.customIndicators # {}
    ELSE IF rule = "latex" THEN cfg.checkLaTeXBalance
    ELSE IF rule = "code" THEN cfg.checkCodeBlocks
    ELSE cfg.checkJsonBalance

\* number of tokens of text that are in the set toks
CountIn(text, toks) == Cardinality({i \in DOMAIN text : text[i] \in toks})

\* whether a rule fires on a text, the indicator rule with the indicators
\* ind
Fires(rule, text, ind) ==
    IF rule = "indicator"
    THEN LET t == Trim(text) IN t # <<>> /\ t[Len(t)] \in ind
    ELSE IF rule = "latex"
    THEN CountIn(text, {"\\begin{"}) # CountIn(text, {"\\end{"})
    ELSE IF rule = "code"
    THEN CountIn(text, {Fence}) % 2 = 1
    ELSE CountIn(text, {"[", "{", "\\begin{", "\\end{", "[continued]"})
             # CountIn(text, {"]", "}", "[continued]"})

----------------------------------------------------------------------------
(* handleError on its own *)

\* the classes of the values given to handleError: the classes of
\* error.utils, a plain Error, and a value that is no Error
ErrorClasses ==
    {"OpenAIError", "SDKError", "ValidationError", "RateLimitError",
     "NetworkError", "FileProcessingError", "Error", "NonError"}

\* the messages of the values given to handleError
ErrorMessages ==
    {"rate limit exceeded", "rate limit on network", "network error",
     "connect ECONNREFUSED", "Rate limit exceeded. Please try again later.",
     "Network error occurred", "unknown error", IncompleteMessage}

\* some value is about to be given to handleError
InitHandler ==
    /\ service = "OpenAIService"
    /\ validation = defaultValidation
    /\ maxAttempts = 1
    /\ opts = DEFAULT_OPTIONS
    /\ InitLoopState("none")
    /\ InitRetryState
    /\ InitThrottleState
    /\ InitClientState
    /\ InitCallState
    /\ InitEquivState
    /\ InitValidatorState
    /\ herror \in {MkError(c, m, 1) : c \in ErrorClasses, m \in ErrorMessages}
    /\ hthrown = NoError
    /\ hcaller = NoError

\* handleError(herror)
HandleError ==
    /\ hthrown = NoError
    /\ hthrown' = handleError(herror)
    /\ UNCHANGED <<herror, hcaller, configVars, clientVars, callVars, equivVars, loopVars, retryVars,
                   throttleVars, validatorVars>>

\* the catch block of the public method: throw handleError(error) on the
\* error the inner catch block has thrown
HandleErrorAgain ==
    /\ hthrown # NoError
    /\ hcaller = NoError
    /\ hcaller' = handleError(hthrown)
    /\ UNCHANGED <<herror, hthrown, configVars, clientVars, callVars, equivVars, loopVars, retryVars,
                   throttleVars, validatorVars>>

NextHandler ==
    \/ HandleError
    \/ HandleErrorAgain

SpecHandler == InitHandler /\ [][NextHandler]_vars

----------------------------------------------------------------------------
(* The loops of the two chat services as functions of the responses *)

\* the code after the while loop, after calls provider calls
EndOfLoop(svc, text, calls, v) ==
    IF FinalCheck(svc, text, v)
    THEN MkResult("returned", text, NoError, calls)
    ELSE MkResult("threw", <<>>, handleError(IncompleteError(svc)), calls)

\* the loop of svc from its i-th provider call on, every call resolving:
\* the i-th call is answered with rs[i]
RECURSIVE RunLoop(_, _, _, _, _, _, _, _)
RunLoop(svc, rs, i, text, msgs, a, max, v) ==
    IF ~WhileCondition(a, max) \/ i > Len(rs)
    THEN EndOfLoop(svc, text, i - 1, v)
    ELSE LET it == LoopBody(svc, rs[i], text, msgs, a, v) IN
         IF it.kind = "throw"
         THEN MkResult("threw", <<>>, handleError(EmptyResponseError(svc)), i)
         ELSE IF it.kind = "break"
         THEN EndOfLoop(svc, it.content, i, v)
         ELSE RunLoop(svc, rs, i + 1, it.content, it.messages, it.attempts,
                      max, v)

\* sequences of exactly n responses
RECURSIVE ResponseSeqs(_)
ResponseSeqs(n) ==
    IF n = 0 THEN {<<>>}
    ELSE {Append(rs, r) : rs \in ResponseSeqs(n - 1), r \in OpenAIResponses}

\* two service objects with the same configuration, and the responses the
\* provider is going to give: as many as the loop can ask for
InitEquiv ==
    /\ service = "OpenAIService"
    /\ validation = defaultValidation
    /\ maxAttempts \in 1..MaxAttemptsBound
    /\ opts = DEFAULT_OPTIONS
    /\ InitLoopState("none")
    /\ InitRetryState
    /\ InitThrottleState
    /\ InitClientState
    /\ InitCallState
    /\ InitValidatorState
    /\ InitHandlerState
    /\ eqInput \in ResponseSeqs(maxAttempts)
    /\ eqResult = [svc \in ChatServices |-> NoResult]

\* generateWithCompletion / generateWithModel of svc runs on eqInput
RunService(svc) ==
    /\ eqResult[svc] = NoResult
    /\ \E msgs \in CallerMessages :
        eqResult' = [eqResult EXCEPT
            ![svc] = RunLoop(svc, eqInput, 1, <<>>, msgs, 0, maxAttempts,
                             validation)]
    /\ UNCHANGED <<eqInput, configVars, clientVars, callVars, loopVars, retryVars, throttleVars,
                   validatorVars, handlerVars>>

NextEquiv == \E svc \in ChatServices : RunService(svc)

SpecEquiv == InitEquiv /\ [][NextEquiv]_vars

----------------------------------------------------------------------------
(* Histories of the throttler read by the properties *)

\* the operations started and not settled
InFlight ==
    {dispatched[i].op : i \in 1..Len(dispatched)}
        \ {settled[i] : i \in 1..Len(settled)}

\* the processQueue calls that have not returned
ActiveLoops ==
    {l \in 1..MaxOps : loops[l].pc \in {"sleeping", "inflight", "resuming"}}

\* C11: the dispatch instants of any two operations dispatched one after
\* the other are at least minDelay = 1000 / requestsPerSecond ms apart.
C11_DispatchSpacing ==
    \A i \in 1..(Len(dispatched) - 1) :
        dispatched[i + 1].at - dispatched[i].at >= minDelay

\* two operations were dispatched, the second after a throttle sleep that
\* ended exactly minDelay after the first dispatch
C11_Witness ==
    /\ Len(dispatched) >= 2
    /\ dispatched[2].at - dispatched[1].at = minDelay


\* C12: operations are dispatched in the order of their add() calls, and
\* they settle in that same order.
C12_FifoOrder ==
    /\ \A i \in 1..Len(dispatched) : dispatched[i].op = i
    /\ \A i \in 1..Len(settled) : settled[i] = i

\* three operations were added before the first settled: two waited in the
\* queue together, and all three have settled
C12_Witness ==
    /\ Len(settled) >= 3
    /\ dispatched[3].at - dispatched[1].at = 2 * minDelay
    /\ now = dispatched[3].at

\* C13: at most one admitted operation is in flight at any time: an
\* operation is started only after every operation started before it has
\* settled.
C13_OneInFlight ==
    /\ Cardinality(InFlight) <= 1
    /\ Len(dispatched) <= Len(settled) + 1
    /\ Cardinality(ActiveLoops) <= 1

\* an operation is in flight after an earlier one settled, and another
\* waits in the queue behind it
C13_Witness ==
    /\ InFlight # {}
    /\ Len(settled) >= 1
    /\ Len(queue) >= 1

\* C14: the promise add() returned for an operation settles with exactly
\* what that operation settled with, and with nothing before it; a
\* rejected operation does not stop the dispatcher: while tasks wait, a
\* processQueue call is running.
C14_OwnOutcomeAndDispatcherSurvives ==
    /\ \A k \in 1..MaxOps :
        /\ callerOutcome[k] = fnOutcome[k]
        /\ callerOutcome[k] # Pending =>
               /\ callerOutcome[k].of = k
               /\ \E i \in 1..Len(settled) : settled[i] = k
    /\ processing = (ActiveLoops # {})
    /\ queue # <<>> => ActiveLoops # {}
    /\ \A l \in 1..MaxOps : loops[l].pc # "threw"

\* an operation rejected and an operation added before it settled got its
\* own value afterwards
C14_Witness ==
    \E k \in 1..(MaxOps - 1) :
        /\ callerOutcome[k] = MkOutcome("error", k)
        /\ callerOutcome[k + 1] = MkOutcome("value", k + 1)
        /\ dispatched[k + 1].slept

\* C15: lastRequestTime is assigned once per dispatched operation, to the
\* instant at which the operation starts, and a settlement does not change
\* it; a throttle sleep begins only when less than minDelay has passed
\* since the previous dispatch, so after an operation that ran for minDelay
\* or longer the next one starts with no wait.
C15_LastRequestTimeAtDispatchOnly ==
    [][ /\ lastRequestTime' # lastRequestTime =>
               Len(dispatched') = Len(dispatched) + 1
        /\ Len(dispatched') # Len(dispatched) =>
               /\ Len(dispatched') = Len(dispatched) + 1
               /\ lastRequestTime' = now
               /\ dispatched'[Len(dispatched')].at = now
        /\ Len(settled') # Len(settled) => lastRequestTime' = lastRequestTime
        /\ \A l \in 1..MaxOps :
               loops'[l].pc = "sleeping" /\ loops[l].pc # "sleeping" =>
                   /\ dispatched # <<>>
                   /\ now - dispatched[Len(dispatched)].at < minDelay
      ]_vars

\* the first operation ran for minDelay or longer and the second, queued
\* behind it, started without a sleep at the instant recorded in
\* lastRequestTime
C15_Witness ==
    /\ Len(dispatched) >= 2
    /\ dispatched[2].at - dispatched[1].at >= minDelay
    /\ ~dispatched[2].slept
    /\ lastRequestTime = dispatched[2].at
    /\ now > lastRequestTime

\* C19: an operation whose caller's deadline expired while it waited in
\* the throttle queue is never started, and its caller never receives the
\* operation's own value or error.
C19_ExpiredNeverStarted ==
    \A k \in expired :
        /\ \A i \in 1..Len(dispatched) : dispatched[i].op # k
        /\ callerOutcome[k] = Pending


----------------------------------------------------------------------------
(* Provider failures inside the loops *)

\* a failure of the provider call that is a rate-limit or a network
\* failure, by its class or by the message of the client's error
IsTransientFailure(e) ==
    \/ e.cls \in {"RateLimitError", "NetworkError"}
    \/ IncludesRateLimit(e.message)
    \/ IncludesNetwork(e.message)

\* the last provider invocation failed and the loop has thrown
ThrewProviderFailure ==
    /\ lpc = "threw"
    /\ errors # <<>>
    /\ errors[Len(errors)].id = invocations

\* the classes of the errors a caller receives when the provider call of
\* the service fails
ProviderErrorKinds(svc) ==
    {handleError(OperationError(svc, raw, 1)).cls : raw \in RawProviderErrors}

\* C16: inside a continuation loop a rate-limit or network failure of the
\* provider call reaches the caller only after maxRetries failed attempts
\* of the admission.
C16_TransientFailureRetriedUntilMaxRetries ==
    (ThrewProviderFailure /\ IsTransientFailure(errors[Len(errors)]))
        => attempt = opts.maxRetries

C18_ExhaustionKindDistinct ==
    (lpc = "threw" /\ thrown.message = IncompleteMessage)
        => thrown.cls \notin ProviderErrorKinds(service)


\* C20: OpenAIService.isResponseComplete is false exactly when at least one
\* enabled rule fires (indicator at the end of the trimmed text, unequal
\* LaTeX counts, odd number of fences, unequal bracket counts), and true
\* otherwise: a rule that is disabled has no part in the verdict.
C20_IncompleteIffEnabledRuleFires ==
    (service = "OpenAIService" /\ verdict # "none") =>
        (verdict = "incomplete" <=>
            \E rule \in Rules :
                /\ Enabled(rule, validation)
                /\ Fires(rule, vtext, validation.customIndicators))

\* a text on which only the JSON rule fires was judged complete with that
\* rule disabled and the other checks enabled
C20_Witness ==
    /\ service = "OpenAIService"
    /\ verdict = "complete"
    /\ ~validation.checkJsonBalance
    /\ validation.checkLaTeXBalance
    /\ validation.checkCodeBlocks
    /\ validation.customIndicators # {}
    /\ Fires("json", vtext, validation.customIndicators)


\* C21: handleError always throws: an OpenAIError is rethrown as the same
\* object; any other Error whose message contains 'rate limit' becomes a
\* RateLimitError; otherwise one whose message contains 'network' or
\* 'ECONNREFUSED' becomes a NetworkError; any other Error becomes an
\* SDKError with the same message; a value that is no Error becomes
\* SDKError('An unknown error occurred').
C21_HandleErrorClassification ==
    hthrown # NoError =>
        /\ hthrown.cls # "none"
        /\ herror.cls = "OpenAIError" => hthrown = herror
        /\ herror.cls \notin {"OpenAIError", "NonError"} =>
               /\ IncludesRateLimit(herror.message) =>
                      hthrown.cls = "RateLimitError"
               /\ (~IncludesRateLimit(herror.message)
                      /\ IncludesNetwork(herror.message)) =>
                      hthrown.cls = "NetworkError"
               /\ (~IncludesRateLimit(herror.message)
                      /\ ~IncludesNetwork(herror.message)) =>
                      /\ hthrown.cls = "SDKError"
                      /\ hthrown.message = herror.message
        /\ herror.cls = "NonError" =>
               /\ hthrown.cls = "SDKError"
               /\ hthrown.message = "An unknown error occurred"

\* an Error whose message contains both 'rate limit' and 'network' was
\* thrown as a RateLimitError
C21_Witness ==
    /\ hthrown.cls = "RateLimitError"
    /\ herror.cls = "Error"
    /\ IncludesNetwork(herror.message)


\* C22: withRetry sleeps initialDelay before the first retry and, before
\* each later retry, min(previous delay * backoffFactor, maxDelay),
\* whichever transient errors occurred.
C22_BackoffSequence ==
    \A i \in 1..Len(sleeps) : sleeps[i] = BackoffDelay(i, opts)

\* two sleeps after a RateLimitError and a NetworkError, the second one
\* cut down to maxDelay
C22_Witness ==
    /\ Len(sleeps) >= 2
    /\ errors[1].cls # errors[2].cls
    /\ sleeps[2] = opts.maxDelay
    /\ sleeps[1] * opts.backoffFactor > opts.maxDelay

\* C29: withRetry sleeps only between invocations: one sleep precedes each
\* re-invocation, none follows a success, the last failed attempt or a
\* non-transient failure, so the sleeps number one less than the
\* invocations.
C29_SleepsOnlyBetweenInvocations ==
    /\ rpc \in {"calling", "resolved", "rejected"} =>
           Len(sleeps) = invocations - 1
    /\ rpc = "sleeping" => Len(sleeps) = invocations
    /\ rpc = "rejected" => Len(sleeps) = Len(errors) - 1
    /\ (rpc = "resolved" /\ invocations = 1) => sleeps = <<>>

\* withRetry has thrown after three invocations and two sleeps
C29_Witness ==
    /\ lpc = "none"
    /\ rpc = "rejected"
    /\ invocations = 3
    /\ Len(sleeps) = 2

\* C30: for every retry configuration, initialDelay greater than maxDelay
\* included, no sleep of withRetry is longer than maxDelay.
C30_NoSleepLongerThanMaxDelay ==
    \A i \in 1..Len(sleeps) : sleeps[i] <= opts.maxDelay


----------------------------------------------------------------------------
(* Finish signals, attempts and the accumulated text *)

\* C23: in OpenAIService a stop signal alone does not end the loop: when
\* the accumulated text fails the validator the loop counts one attempt
\* and, budget left, issues a continuation request; with the signal absent
\* or unknown the loop returns on that response if and only if the
\* accumulated text passes the validator.
C23_StopNeedsValidator ==
    [][ (/\ Len(responses') = Len(responses) + 1
         /\ service = "OpenAIService"
         /\ ~HasNoText(responses'[Len(responses')])) =>
        LET r == responses'[Len(responses')]
            complete == isResponseCompleteOpenAI(content', validation) IN
        /\ (r.finish_reason = "stop" /\ ~complete) =>
               /\ attempts' = attempts + 1
               /\ messages' = << callerMessages[1],
                                 MkMessage("user", ContinueFrom(content')) >>
               /\ attempts' < maxAttempts =>
                      (lpc' = "queued" /\ admissions' = admissions + 1)
               /\ attempts' >= maxAttempts =>
                      (lpc' = "threw" /\ thrown'.message = IncompleteMessage)
        /\ r.finish_reason = "absent" => (lpc' = "returned" <=> complete)
      ]_vars

\* a stop response left the text incomplete, the loop went on, and a
\* response without finish signal completed the text and was returned
C23_Witness ==
    /\ service = "OpenAIService"
    /\ Len(responses) = 2
    /\ responses[1].finish_reason = "stop"
    /\ ~isResponseCompleteOpenAI(JoinResponses(1), validation)
    /\ responses[2].finish_reason = "absent"
    /\ attempts = 1
    /\ lpc = "returned"

\* C24: in GeminiService.generateWithModel a response with an empty text
\* is the last one and makes the loop throw: nothing is returned and no
\* further provider call is admitted.
C24_GeminiEmptyResponseIsFatal ==
    service = "GeminiService" =>
        \A k \in 1..Len(responses) :
            HasNoText(responses[k]) =>
                /\ k = Len(responses)
                /\ lpc = "threw"
                /\ returned = <<>>
                /\ admissions = k

\* C25: every response that does not end the loop raises attempts by
\* exactly one, after the length signal as after the validator, so a loop
\* execution admits at most maxAttempts provider calls to the throttler.
C25_OneAttemptPerContinuation ==
    /\ admissions <= maxAttempts
    /\ attempts <= maxAttempts
    /\ lpc \in {"queued", "awaiting"} =>
           /\ attempts = Len(responses)
           /\ admissions = attempts + 1
    /\ Finished =>
           /\ attempts \in {Len(responses) - 1, Len(responses)}
           /\ attempts = Len(responses) =>
                  (attempts = maxAttempts \/ errors # <<>>)

\* the budget of an OpenAIService loop was used up by a continuation after
\* the length signal followed by continuations after the validator
C25_Witness ==
    /\ service = "OpenAIService"
    /\ maxAttempts >= 2
    /\ Len(responses) = maxAttempts
    /\ responses[1].finish_reason = "length"
    /\ responses[2].finish_reason = "stop"
    /\ attempts = maxAttempts
    /\ admissions = maxAttempts
    /\ lpc = "threw"

\* C26: the validator is applied to the whole accumulated text: the loop
\* went on after a response (other than by the length signal) only when
\* the text joined up to it was incomplete, and a returned text is the
\* join of all responses and complete as a whole, whatever the last
\* segment is on its own.
C26_ValidatorSeesWholeText ==
    /\ \A k \in 1..(Len(responses) - 1) :
           (~HasNoText(responses[k]) /\ responses[k].finish_reason # "length")
               => ~isResponseComplete(service, JoinResponses(k), validation)
    /\ lpc = "returned" =>
           /\ returned = JoinResponses(Len(responses))
           /\ isResponseComplete(service, returned, validation)

\* a complete text was continued after the length signal, became
\* incomplete with the second segment, and was completed and returned with
\* a third segment that is incomplete on its own
C26_Witness ==
    /\ service = "OpenAIService"
    /\ lpc = "returned"
    /\ Len(responses) = 3
    /\ isResponseCompleteOpenAI(JoinResponses(1), validation)
    /\ ~isResponseCompleteOpenAI(JoinResponses(2), validation)
    /\ ~isResponseCompleteOpenAI(responses[3].content, validation)


\* C27: with the bracket (JSON) balance rule enabled,
\* GeminiService.isResponseComplete and
\* GeminiOpenAIService.isResponseComplete judge a text incomplete whenever
\* its count of '[' and '{' differs from its count of ']' and '}'.
C27_GeminiBracketRule ==
    (/\ service \in {"GeminiService", "GeminiOpenAIService"}
     /\ verdict # "none"
     /\ validation.checkJsonBalance
     /\ Fires("json", vtext, validation.customIndicators))
        => verdict = "incomplete"


\* C28: before an operation is dispatched the throttler waits exactly
\* minDelay - elapsed when elapsed = now - lastRequestTime is less than
\* minDelay, and not at all otherwise; the first operation ever admitted
\* is dispatched without a wait.
C28_ExactThrottleWait ==
    [][ /\ \A l \in 1..MaxOps :
             /\ (loops'[l].pc = "sleeping" /\ loops[l].pc # "sleeping") =>
                    /\ now - lastRequestTime < minDelay
                    /\ loops'[l].wakeAt - now
                           = minDelay - (now - lastRequestTime)
             /\ (loops'[l].pc = "inflight"
                    /\ loops[l].pc \notin {"sleeping", "inflight"}) =>
                    now - lastRequestTime >= minDelay
        /\ (dispatched = <<>> /\ dispatched' # <<>>) =>
               (~dispatched'[1].slept /\ dispatched'[1].op = 1)
      ]_vars

\* after a first operation has settled, the throttler sleeps for the half
\* of minDelay that is left since the last dispatch
C28_Witness ==
    /\ Len(settled) >= 1
    /\ \E l \in 1..MaxOps :
           /\ loops[l].pc = "sleeping"
           /\ now - lastRequestTime = TickStep
           /\ loops[l].wakeAt - now = minDelay - TickStep


----------------------------------------------------------------------------
(* Error types received by the caller *)

\* C31: the empty-response failure and the attempts-exhausted failure
\* reach the caller with different error classes, and each class differs
\* from the classes of provider failures.
C31_EmptyAndExhaustedDistinctTypes ==
    /\ (lpc = "threw" /\ thrown.message = IncompleteMessage) =>
           /\ thrown.cls # handleError(EmptyResponseError(service)).cls
           /\ thrown.cls \notin ProviderErrorKinds(service)
    /\ (lpc = "threw" /\ responses # <<>> /\ HasNoText(LastResponse)
           /\ thrown.message = errorMessage) =>
           /\ thrown.cls # handleError(IncompleteError(service)).cls
           /\ thrown.cls \notin ProviderErrorKinds(service)


\* C34: the class first assigned to a failure is the class the caller of a
\* public method receives: a RateLimitError, a NetworkError or a
\* ValidationError given to handleError keeps its class, and a second pass
\* through handleError yields the class of the first pass.
C34_HandleErrorKeepsClass ==
    /\ (hthrown # NoError
           /\ herror.cls \in {"RateLimitError", "NetworkError", "ValidationError"})
           => hthrown.cls = herror.cls
    /\ hcaller # NoError => hcaller.cls = hthrown.cls


----------------------------------------------------------------------------
(* Totals of one loop execution *)

\* C36: one execution of OpenAIService.generateWithCompletion invokes the
\* provider at most maxAttempts * maxRetries times, the re-invocations of
\* withRetry inside each admission included.
C36_InvocationsBounded ==
    service = "OpenAIService" =>
        /\ invocations <= maxAttempts * opts.maxRetries
        /\ invocations <= admissions * opts.maxRetries

\* the loop of an OpenAIService has used its whole budget of three
\* admissions, the last provider call having failed
C36_Witness ==
    /\ service = "OpenAIService"
    /\ maxAttempts = 3
    /\ admissions = maxAttempts
    /\ invocations = 3
    /\ ThrewProviderFailure

\* C39: dispatcher invariant of RequestThrottler, at every point where
\* control is yielded: a non-empty queue implies processing = true,
\* processing = true implies that exactly one processQueue call is active,
\* and two processQueue calls are never active at once.
C39_DispatcherInvariant ==
    /\ Len(queue) > 0 => processing
    /\ processing => Cardinality(ActiveLoops) = 1
    /\ \A l1, l2 \in ActiveLoops : l1 = l2

\* a task waits in the queue while the one processQueue call sleeps before
\* starting a second operation, the first one having settled
C39_Witness ==
    /\ Len(queue) >= 1
    /\ Len(settled) >= 1
    /\ processing
    /\ \E l \in ActiveLoops : loops[l].pc = "sleeping"


\* C35: every execution of a continuation loop ends, with a returned text
\* or an error, after at most maxAttempts admissions to the throttler,
\* provided every admitted operation settles; once the loop has ended no
\* further provider call is made.  Termination is shown by a variant: a
\* natural number that every step of a running loop strictly decreases and
\* that is positive while the loop runs; a running loop is never stuck: it
\* waits for the throttler with withRetry idle, or for an operation in
\* flight that is calling the provider, sleeping, or settled.
C35_LoopTerminates ==
    [][LET PerAdmission == 2 * opts.maxRetries + 4
           Inner(pc, rp, att) ==
               IF pc = "queued" THEN 2 * opts.maxRetries + 3
               ELSE IF rp = "calling" THEN 2 * (opts.maxRetries - att) + 2
               ELSE IF rp = "sleeping" THEN 2 * (opts.maxRetries - att) + 3
               ELSE 1
           Variant(pc, rp, att, adm) ==
               IF pc \in {"returned", "threw"} THEN 0
               ELSE IF pc = "idle" THEN (maxAttempts + 1) * PerAdmission
               ELSE (maxAttempts - adm) * PerAdmission + Inner(pc, rp, att)
       IN  /\ admissions' <= maxAttempts
           /\ lpc' \in {"queued", "awaiting", "returned", "threw"}
           /\ lpc' \in {"returned", "threw"}
                \/ Variant(lpc', rpc', attempt', admissions') > 0
           /\ lpc' = "queued" => rpc' = "idle"
           /\ lpc' = "awaiting"
                => rpc' \in {"calling", "sleeping", "resolved", "rejected"}
           /\ Variant(lpc', rpc', attempt', admissions')
                < Variant(lpc, rpc, attempt, admissions)
           /\ Finished => (invocations' = invocations /\ lpc' = lpc)
      ]_vars

\* a loop has ended after using its whole budget of admissions, with
\* provider failures retried on the way
C35_Witness ==
    /\ Finished
    /\ maxAttempts >= 2
    /\ admissions = maxAttempts
    /\ errors # <<>>
    /\ invocations > admissions


\* C32: every admitted operation is eventually dispatched and settled,
\* provided every operation admitted before it settles: no add() is lost,
\* whether the throttler is idle, another operation waits or is in flight,
\* or the dispatcher is finishing its last entry; after the queue drains
\* processing returns to false, and a later add() starts a new dispatcher.
C32_EveryAdmittedOperationSettles ==
    /\ \A k \in 1..MaxOps :
        (added >= k) ~> (/\ \E i \in 1..Len(dispatched) : dispatched[i].op = k
                         /\ callerOutcome[k] # Pending)
    /\ processing ~> (~processing /\ queue = <<>>)
    /\ [][(~processing /\ added' = added + 1)
            => (/\ processing'
                /\ loops'[added'].pc \in {"sleeping", "inflight"}
                /\ loops'[added'].op = added')]_vars

\* a second dispatcher, started by an add() made after the queue had
\* drained, has returned too, and every operation admitted is settled
C32_Witness ==
    /\ added = MaxOps
    /\ Len(settled) = MaxOps
    /\ ~processing
    /\ \E l \in 2..MaxOps : loops[l].pc = "returned"
    /\ loops[1].pc = "returned"


\* C38: for every sequence of provider responses and the same
\* configuration, GeminiOpenAIService.generateWithModel and
\* OpenAIService.generateWithCompletion make the same number of provider
\* calls and end with the same outcome: the same returned text, or a
\* failure at the same point.
C38_SameCallsAndOutcome ==
    LET o == eqResult["OpenAIService"]
        g == eqResult["GeminiOpenAIService"] IN
    (o # NoResult /\ g # NoResult)
        => /\ o.calls = g.calls
           /\ o.kind = g.kind
           /\ o.text = g.text


----------------------------------------------------------------------------
(* The provider requests made through the throttler: the operation handed
   to add is withRetry(() => provider call), and createChatCompletion makes
   one request per message *)

InitThrottledCalls ==
    /\ service \in Services
    /\ validation = defaultValidation
    /\ maxAttempts = 1
    /\ opts = DEFAULT_OPTIONS
    /\ InitLoopState("none")
    /\ InitRetryState
    /\ InitThrottleState
    /\ InitClientState
    /\ InitEquivState
    /\ InitCallState
    /\ InitValidatorState
    /\ InitHandlerState

\* a provider request made inside the operation of processQueue call l
MkCall(op, at, why) == [op |-> op, at |-> at, why |-> why]

\* createChatCompletion: the request before was answered, the next message
\* of the list is sent
AdditionalRequest(l) ==
    /\ service = "GeminiOpenAIService"
    /\ loops[l].pc = "inflight"
    /\ Len(extraCalls) < MaxExtraCalls
    /\ LET op == loops[l].op IN
        /\ \E msgs \in CallerMessages : opState[op].sent < Len(msgs)
        /\ opState' = [opState EXCEPT ![op].sent = @ + 1]
        /\ extraCalls' = Append(extraCalls, MkCall(op, now, "additional"))
    /\ UNCHANGED <<throttleVars, configVars, clientVars, loopVars, retryVars, equivVars,
                   validatorVars, handlerVars>>

\* withRetry inside the operation of processQueue call l: the invocation
\* fails with an error withRetry retries, and withRetry sleeps
InvocationFails(l) ==
    /\ loops[l].pc = "inflight"
    /\ Len(extraCalls) < MaxExtraCalls
    /\ LET op == loops[l].op
           n == opState[op].attempt + 1 IN
        /\ \E raw \in RawProviderErrors :
            CatchDecision(OperationError(service, raw, 0), n, opts.maxRetries)
                = "sleep"
        /\ opState' = [opState EXCEPT ![op].attempt = n]
        /\ loops' = [loops EXCEPT
               ![l] = MkLoop("backoff", op, now + BackoffDelay(n, opts), "none")]
    /\ UNCHANGED <<now, queue, processing, lastRequestTime, added,
                   dispatched, settled, fnOutcome, callerOutcome, expired,
                   extraCalls>>
    /\ UNCHANGED <<configVars, clientVars, loopVars, retryVars, equivVars, validatorVars,
                   handlerVars>>

\* the sleep of withRetry is over, not before its delay has passed: the
\* operation is invoked again
BackoffWake(l) ==
    /\ loops[l].pc = "backoff"
    /\ LET op == loops[l].op
           t == IF now < loops[l].wakeAt THEN loops[l].wakeAt ELSE now IN
        /\ now' = t
        /\ opState' = [opState EXCEPT ![op].sent = 1]
        /\ extraCalls' = Append(extraCalls, MkCall(op, t, "retry"))
        /\ loops' = [loops EXCEPT ![l] = MkLoop("inflight", op, 0, "none")]
    /\ UNCHANGED <<queue, processing, lastRequestTime, added, dispatched,
                   settled, fnOutcome, callerOutcome, expired>>
    /\ UNCHANGED <<configVars, clientVars, loopVars, retryVars, equivVars, validatorVars,
                   handlerVars>>

NextThrottledCalls ==
    \/ NextThrottle
    \/ \E l \in 1..MaxOps : AdditionalRequest(l)
    \/ \E l \in 1..MaxOps : InvocationFails(l)
    \/ \E l \in 1..MaxOps : BackoffWake(l)

SpecThrottledCalls == InitThrottledCalls /\ [][NextThrottledCalls]_vars

\* the instants at which a provider request was started: the starts of the
\* admitted operations and the requests made inside them
RequestInstants ==
    [i \in 1..(Len(dispatched) + Len(extraCalls)) |->
        IF i <= Len(dispatched) THEN dispatched[i].at
        ELSE extraCalls[i - Len(dispatched)].at]

\* C33: any two provider invocations made through the shared throttler
\* start at least minDelay apart, also when some of them are
\* re-invocations made by withRetry inside an admitted operation or
\* additional requests issued inside one admitted operation.
C33_AllInvocationsSpaced ==
    \A i, j \in DOMAIN RequestInstants :
        i < j => \/ RequestInstants[j] - RequestInstants[i] >= minDelay
                 \/ RequestInstants[i] - RequestInstants[j] >= minDelay


----------------------------------------------------------------------------
(* Continuation loops running concurrently on the shared throttler *)

\* the loops of the three services add and await in the same way: the
\* loops of one service stand for all
InitClients ==
    /\ service = "OpenAIService"
    /\ validation = defaultValidation
    /\ maxAttempts \in 1..MaxAttemptsBound
    /\ opts = DEFAULT_OPTIONS
    /\ InitLoopState("none")
    /\ InitRetryState
    /\ InitThrottleState
    /\ InitClientState
    /\ InitCallState
    /\ InitEquivState
    /\ InitValidatorState
    /\ InitHandlerState

\* mutant of AwaitIsOver: the loop goes on without the await
AwaitIsOver_NoAwait(pc, outcome) == pc = "waiting"

\* await throttler.add(...) of a loop: it goes on when the promise of its
\* operation has settled
AwaitIsOver(pc, outcome) == pc = "waiting" /\ outcome # Pending

\* loop c calls throttler.add for its next provider call
ClientAdd(c) ==
    /\ AddTask
    /\ clientPc' = [clientPc EXCEPT ![c] = "waiting"]
    /\ clientOp' = [clientOp EXCEPT ![c] = added + 1]
    /\ owner' = [owner EXCEPT ![added + 1] = c]

\* a public method is called: loop c starts and, maxAttempts being at least
\* 1, adds its first call
ClientStart(c) ==
    /\ clientPc[c] = "idle"
    /\ WhileCondition(clientAttempts[c], maxAttempts)
    /\ ClientAdd(c)
    /\ UNCHANGED <<clientAttempts, configVars, callVars, equivVars,
                   loopVars, retryVars, validatorVars, handlerVars>>

\* the await of loop c is over: the catch block, or the rest of the loop
\* body and the loop test, and then the next add or the code after the loop
ClientResumes(c) ==
    /\ AwaitIsOver(clientPc[c], callerOutcome[clientOp[c]])
    /\ \/ /\ callerOutcome[clientOp[c]].kind # "error"
          /\ WhileCondition(clientAttempts[c] + 1, maxAttempts)
          /\ clientAttempts' = [clientAttempts EXCEPT ![c] = @ + 1]
          /\ ClientAdd(c)
       \/ /\ clientPc' = [clientPc EXCEPT ![c] = "done"]
          /\ UNCHANGED <<clientAttempts, clientOp, owner, throttleVars>>
    /\ UNCHANGED <<configVars, callVars, equivVars, loopVars, retryVars,
                   validatorVars, handlerVars>>

\* the throttler between the calls of the loops
\* time passes while an operation waits in the sleep of executeWithThrottle
TimerTick ==
    /\ \E l \in 1..MaxOps : loops[l].pc = "sleeping"
    /\ Tick

ThrottlerStep ==
    \/ TimerTick
    \/ \E l \in 1..MaxOps : WakeThrottle(l)
    \/ \E l \in 1..MaxOps, kind \in SettleKinds : OpSettles(l, kind)
    \/ \E l \in 1..MaxOps : DispatcherResumes(l)

NextClients ==
    \/ \E c \in 1..NumLoops : ClientStart(c)
    \/ \E c \in 1..NumLoops : ClientResumes(c)
    \/ ThrottlerStep

SpecClients == InitClients /\ [][NextClients]_vars

\* the operations added and not settled: queued, waiting for the
\* throttle, or in flight
Unsettled == {k \in 1..added : callerOutcome[k] = Pending}

\* the loops that are running
RunningLoops == {c \in 1..NumLoops : clientPc[c] = "waiting"}

\* C37: each running continuation loop has at most one operation queued
\* or in flight in the throttler, so with n loops running the number of
\* queued plus in-flight entries never exceeds n, and the calls of
\* different loops are dispatched in admission order.
C37_OneOperationPerLoop ==
    /\ \A c \in 1..NumLoops :
        Cardinality({k \in Unsettled : owner[k] = c}) <= 1
    /\ \A k \in Unsettled : owner[k] \in RunningLoops
    /\ Cardinality(Unsettled) <= Cardinality(RunningLoops)
    /\ Len(queue) + Cardinality(InFlight) <= Cardinality(RunningLoops)
    /\ \A i, j \in 1..Len(dispatched) :
        i < j => dispatched[i].op < dispatched[j].op

\* two loops wait at once, one operation in flight and the other queued,
\* after the calls of the two loops were dispatched alternately
C37_Witness ==
    /\ Cardinality(RunningLoops) = 2
    /\ Cardinality(Unsettled) = 2
    /\ Cardinality(InFlight) = 1
    /\ Len(queue) = 1
    /\ Len(dispatched) = 2
    /\ owner[dispatched[1].op] # owner[dispatched[2].op]
    /\ owner[queue[1]] = owner[dispatched[1].op]

====
